---- MODULE Spec2Model ----
(***************************************************************************)
(* GridData (icepack/grid/grid_data.py): gridded data with a missing-data  *)
(* mask, bilinear interpolation, validity query and sub-region extraction. *)
(*                                                                         *)
(* Coordinates and sample values are integers; every quotient the code     *)
(* forms is kept as an exact fraction (record [n, d] in lowest terms), so  *)
(* the arithmetic below is the code's arithmetic wherever the floating     *)
(* point operations are exact.  Arrays are 0-based, as in the source.      *)
(***************************************************************************)
EXTENDS Integers, FiniteSets, Sequences, TLC

VARIABLES objs, call

vars == <<objs, call>>

(* ------------------------------ bounds --------------------------------- *)

\* longest axis of a constructed grid
MaxN == 3
\* first coordinate of every constructed axis
Origin == 1

\* sample values of the constructed grids
Values == {0, 1}
\* sentinel values tried for missing_data_value
Sentinels == {0, 1, 2}
\* numbers of masked samples in a mask handed to the constructor
MaskSizes == {0, 1}
\* grid spacings of the constructed axes
Steps == {1, 2}
\* how far outside the axes the query coordinates go
Margin == {-1, 0, 1}

(* --------------------------- Python helpers ---------------------------- *)

Min(a, b) == IF b < a THEN b ELSE a

Max(a, b) == IF b > a THEN b ELSE a

Abs(a) == IF a < 0 THEN -a ELSE a

RECURSIVE GCD(_, _)
GCD(a, b) == IF b = 0 THEN a ELSE GCD(b, a % b)

\* the fraction n/d (d # 0) in lowest terms with a positive denominator
Rat(n, d) ==
    LET g == GCD(Abs(n), Abs(d))
        s == IF d < 0 THEN -1 ELSE 1
    IN  [n |-> (s * n) \div g, d |-> (s * d) \div g]

RatInt(v) == [n |-> v, d |-> 1]

RatAdd(p, q) == Rat(p.n * q.d + q.n * p.d, p.d * q.d)

RatMul(p, q) == Rat(p.n * q.n, p.d * q.d)

\* len(a) of a 0-based array
len(a) == Cardinality(DOMAIN a)

\* a[-1]
last(a) == a[len(a) - 1]

\* the bounds Python gives a slice index on a sequence of length n
SliceIndex(k, n) == IF k < 0 THEN Max(k + n, 0) ELSE Min(k, n)

\* a[lo:hi] of a 0-based array
Slice(a, lo, hi) ==
    LET s == SliceIndex(lo, len(a))
        e == SliceIndex(hi, len(a))
    IN  [k \in 0..(e - s - 1) |-> a[s + k]]

\* q[ilo:ihi, jlo:jhi] of a masked array
Slice2(q, ilo, ihi, jlo, jhi) ==
    LET si == SliceIndex(ilo, q.shape[1])
        ei == SliceIndex(ihi, q.shape[1])
        sj == SliceIndex(jlo, q.shape[2])
        ej == SliceIndex(jhi, q.shape[2])
        ny == Max(ei - si, 0)
        nx == Max(ej - sj, 0)
        I  == (0..(ny - 1)) \X (0..(nx - 1))
    IN  [isMA  |-> q.isMA,
         shape |-> <<ny, nx>>,
         val   |-> [p \in I |-> q.val[<<si + p[1], sj + p[2]>>]],
         mask  |-> [p \in I |-> q.mask[<<si + p[1], sj + p[2]>>]]]

\* a raised exception
Raise(e) == [kind |-> "error", err |-> e]

\* a keyword argument left at None
NoArg == [given |-> FALSE]

\* ma.masked_not_equal in place of ma.masked_equal
masked_not_equal(data, value) ==
    [isMA  |-> TRUE,
     shape |-> data.shape,
     val   |-> data.val,
     mask  |-> [p \in DOMAIN data.val |-> data.val[p] # value]]

\* ma.masked_equal(data, value)
masked_equal(data, value) ==
    [isMA  |-> TRUE,
     shape |-> data.shape,
     val   |-> data.val,
     mask  |-> [p \in DOMAIN data.val |-> data.val[p] = value]]

\* ma.MaskedArray(data=data, mask=mask)
MaskedArray(data, mask) ==
    [isMA |-> TRUE, shape |-> data.shape, val |-> data.val, mask |-> mask]

(* ------------------------------ the code ------------------------------- *)

\* the shape test with `and` in place of `or`
Incompatible_both(x, y, data) ==
    (len(x) # data.shape[2]) /\ (len(y) # data.shape[1])

\* GridData.__init__: ny, nx = data.shape; (len(x) != nx) or (len(y) != ny)
Incompatible(x, y, data) ==
    (len(x) # data.shape[2]) \/ (len(y) # data.shape[1])

\* GridData.__init__: the new object, or the error raised
__init__(x, y, data, mask, missing_data_value) ==
    IF Incompatible(x, y, data)
    THEN Raise("ShapeMismatch")
    ELSE IF data.isMA
    THEN [kind |-> "ok", obj |-> [x |-> x, y |-> y, data |-> data]]
    ELSE IF missing_data_value.given
    THEN [kind |-> "ok",
          obj  |-> [x |-> x, y |-> y,
                    data |-> masked_equal(data, missing_data_value.v)]]
    ELSE IF mask.given
    THEN [kind |-> "ok",
          obj  |-> [x |-> x, y |-> y, data |-> MaskedArray(data, mask.m)]]
    ELSE Raise("UnspecifiedMask")

\* the domain test with the last grid line left out
Contains_half_open(a, A) == a[0] <= A /\ A < last(a)

\* _index_of_point: a[0] <= A <= a[-1]
Contains(a, A) == a[0] <= A /\ A <= last(a)

\* the quotient rounded up in place of int()
PyInt_ceil(n, d) == -((-n) \div d)

\* int(n / d): Python truncates the quotient toward zero
PyInt(n, d) ==
    LET q == Abs(n) \div Abs(d)
    IN  IF (n < 0) = (d < 0) THEN q ELSE -q

\* the index taken from A in place of A - a[0]
cell_index_no_origin(a, A) == Min(PyInt(A, a[1] - a[0]), len(a) - 2)

\* _index_of_point: min(int((A - a[0]) / (a[1] - a[0])), len(a) - 2)
cell_index(a, A) == Min(PyInt(A - a[0], a[1] - a[0]), len(a) - 2)

\* _index_of_point: the cell (i, j), or the error raised.  Indexing an axis that
\* is too short raises IndexError; `and` does not evaluate y when x refuses.
_index_of_point(x, y, X, Y) ==
    IF len(x) = 0 THEN Raise("IndexError")
    ELSE IF ~Contains(x, X) THEN Raise("OutOfDomain")
    ELSE IF len(y) = 0 THEN Raise("IndexError")
    ELSE IF ~Contains(y, Y) THEN Raise("OutOfDomain")
    ELSE IF len(y) < 2 \/ len(x) < 2 THEN Raise("IndexError")
    ELSE [kind |-> "ok", i |-> cell_index(y, Y), j |-> cell_index(x, X)]

\* the test that forgets the corner (i+1, j+1)
_is_missing_three(q, i, j) ==
    \E kl \in {<<i, j>>, <<i, j + 1>>, <<i + 1, j>>} : q.mask[kl]

\* _is_missing
_is_missing(q, i, j) ==
    \E k \in {i, i + 1}, l \in {j, j + 1} : q.mask[<<k, l>>]

\* GridData.__getitem__
__getitem__(self, i, j) == self.data.val[<<i, j>>]

\* the offset taken from a[0] in place of a[k]
offset_from_origin(a, k, A) == Rat(A - a[0], a[1] - a[0])

\* _bilinear_interp: ax = (X - x[j])/(x[1] - x[0]), and ay likewise
offset(a, k, A) == Rat(A - a[k], a[1] - a[0])

\* the cross term with q[i+1, j] in place of q[i+1, j+1]
d2q_dx_dy_repeated(q, i, j) ==
    __getitem__(q, i, j) + __getitem__(q, i + 1, j)
        - __getitem__(q, i + 1, j) - __getitem__(q, i, j + 1)

\* _bilinear_interp: d2q_dx_dy = q[i, j] + q[i+1, j+1] - q[i+1, j] - q[i, j+1]
d2q_dx_dy(q, i, j) ==
    __getitem__(q, i, j) + __getitem__(q, i + 1, j + 1)
        - __getitem__(q, i + 1, j) - __getitem__(q, i, j + 1)

\* _bilinear_interp: the interpolated value, or the error raised
_bilinear_interp(q, X, Y) ==
    LET x  == q.x
        y  == q.y
        ij == _index_of_point(x, y, X, Y)
    IN  IF ij.kind = "error" THEN ij
        ELSE LET i == ij.i
                 j == ij.j
             IN  IF _is_missing(q.data, i, j) THEN Raise("InsufficientData")
                 ELSE LET ax == offset(x, j, X)
                          ay == offset(y, i, Y)
                          dq_dx == __getitem__(q, i, j + 1) - __getitem__(q, i, j)
                          dq_dy == __getitem__(q, i + 1, j) - __getitem__(q, i, j)
                          v == RatAdd(RatAdd(RatAdd(RatInt(__getitem__(q, i, j)),
                                                    RatMul(ax, RatInt(dq_dx))),
                                             RatMul(ay, RatInt(dq_dy))),
                                      RatMul(RatMul(ax, ay),
                                             RatInt(d2q_dx_dy(q, i, j))))
                      IN  [kind |-> "value", n |-> v.n, d |-> v.d]

\* GridData.__call__
__call__(self, X, Y) == _bilinear_interp(self, X, Y)

\* GridData.is_masked: the answer, or the error raised
is_masked(self, X, Y) ==
    LET ij == _index_of_point(self.x, self.y, X, Y)
    IN  IF ij.kind = "error" THEN ij
        ELSE [kind |-> "bool", b |-> _is_missing(self.data, ij.i, ij.j)]

\* the lower corner left unclamped
clamp_low_none(v, a) == v

\* GridData.subset: max(xmin, self.x[0])
clamp_low(v, a) == Max(v, a[0])

\* GridData.subset: min(xmax, self.x[-1])
clamp_high(v, a) == Min(v, last(a))

\* the stop jmax + 1, imax + 1
stop_short(k) == k + 1

\* GridData.subset: the stop jmax + 2, imax + 2 of the slices
stop(k) == k + 2

\* GridData.subset: the new object, or the error raised
subset(self, xmin, ymin, xmax, ymax) ==
    IF len(self.x) = 0 \/ len(self.y) = 0 THEN Raise("IndexError")
    ELSE LET Xmin == clamp_low(xmin, self.x)
             Ymin == clamp_low(ymin, self.y)
             Xmax == clamp_high(xmax, self.x)
             Ymax == clamp_high(ymax, self.y)
             lo   == _index_of_point(self.x, self.y, Xmin, Ymin)
             hi   == _index_of_point(self.x, self.y, Xmax, Ymax)
         IN  IF lo.kind = "error" THEN lo
             ELSE IF hi.kind = "error" THEN hi
             ELSE __init__(Slice(self.x, lo.j, stop(hi.j)),
                           Slice(self.y, lo.i, stop(hi.i)),
                           Slice2(self.data, lo.i, stop(hi.i), lo.j, stop(hi.j)),
                           NoArg, NoArg)

(* ------------------------------ inputs --------------------------------- *)

\* an axis of n points: spacing step, the last point moved out by stretch
Axis(n, step, stretch) ==
    [k \in 0..(n - 1) |->
        Origin + k * step + (IF k = n - 1 /\ n > 2 THEN stretch ELSE 0)]

Axes ==
    {Axis(n, step, stretch) : n \in 2..MaxN, step \in Steps, stretch \in {0, 1}}

Cells(ny, nx) == (0..(ny - 1)) \X (0..(nx - 1))

\* sample arrays: a 2 x 2 pattern of values repeated over the grid
Patterns == [{0, 1} \X {0, 1} -> Values]

Field(ny, nx, p) == [c \in Cells(ny, nx) |-> p[<<c[1] % 2, c[2] % 2>>]]

\* a sample array with one value found in a single place
Spike(ny, nx) == [c \in Cells(ny, nx) |-> IF c = <<0, 0>> THEN 1 ELSE 0]

Fields(ny, nx) == {Field(ny, nx, p) : p \in Patterns} \cup {Spike(ny, nx)}

Masks(ny, nx) ==
    {[c \in Cells(ny, nx) |-> c \in M] :
        M \in {S \in SUBSET Cells(ny, nx) : Cardinality(S) \in MaskSizes}}

NoMask(ny, nx) == [c \in Cells(ny, nx) |-> FALSE]

\* a plain ndarray / a numpy masked array
NdArray(ny, nx, v) ==
    [isMA |-> FALSE, shape |-> <<ny, nx>>, val |-> v, mask |-> NoMask(ny, nx)]

MaArray(ny, nx, v, m) ==
    [isMA |-> TRUE, shape |-> <<ny, nx>>, val |-> v, mask |-> m]

Given(v) == [given |-> TRUE, v |-> v]

GivenMask(m) == [given |-> TRUE, m |-> m]

\* the argument lists of the constructor, for data of shape (ny, nx)
CtorArgs(ny, nx) ==
    LET V == Fields(ny, nx)
    IN       {[data |-> MaArray(ny, nx, v, m), mask |-> NoArg, mdv |-> NoArg] :
                  v \in V, m \in Masks(ny, nx)}
        \cup {[data |-> NdArray(ny, nx, v), mask |-> GivenMask(m), mdv |-> NoArg] :
                  v \in V, m \in Masks(ny, nx)}
        \cup {[data |-> NdArray(ny, nx, v), mask |-> NoArg, mdv |-> Given(s)] :
                  v \in V, s \in Sentinels}
        \cup {[data |-> NdArray(ny, nx, v), mask |-> GivenMask(NoMask(ny, nx)),
               mdv |-> Given(s)] : v \in V, s \in Sentinels}
        \cup {[data |-> NdArray(ny, nx, v), mask |-> NoArg, mdv |-> NoArg] :
                  v \in V}

\* the query coordinates tried along an axis
Coords(a) ==
    IF len(a) = 0 THEN {Origin}
    ELSE {c + m : c \in a[0]..last(a), m \in Margin}

\* the grid of the sub-region runs: x = [0, 1, 2, 3], y = [0, 1, 2] in units
\* of half a grid step from Origin, so that half-integers are integers
SubsetShape == <<3, 4>>

\* samples that differ from cell to cell and are not linear in the indices
Squares(ny, nx) == [c \in Cells(ny, nx) |-> (c[1] * nx + c[2]) * (c[1] * nx + c[2])]

SubsetGrids ==
    LET ny == SubsetShape[1]
        nx == SubsetShape[2]
    IN  {__init__(Axis(nx, 2, 0), Axis(ny, 2, 0),
                  MaArray(ny, nx, Squares(ny, nx), m), NoArg, NoArg).obj :
            m \in Masks(ny, nx)}

(* ------------------------------ actions -------------------------------- *)

\* no call is outstanding: the caller is free to make the next one
NoCall == [op |-> "none"]

Ref(k) == [kind |-> "ref", ref |-> k]

\* g = GridData(x, y, data, mask=..., missing_data_value=...)
Construct ==
    /\ call = NoCall
    /\ objs = <<>>
    /\ \E x \in Axes, y \in Axes, ny \in 2..MaxN, nx \in 2..MaxN :
         \E a \in CtorArgs(ny, nx) :
            LET r == __init__(x, y, a.data, a.mask, a.mdv)
            IN  /\ objs' = IF r.kind = "ok" THEN <<r.obj>> ELSE objs
                /\ call' = [op |-> "init", x |-> x, y |-> y, data |-> a.data,
                            mask |-> a.mask, mdv |-> a.mdv,
                            ret |-> IF r.kind = "ok" THEN Ref(1) ELSE r]

\* objs[1]((X, Y))
Call ==
    /\ call = NoCall
    /\ objs # <<>>
    /\ \E X \in Coords(objs[1].x), Y \in Coords(objs[1].y) :
            call' = [op |-> "call", X |-> X, Y |-> Y,
                     ret |-> __call__(objs[1], X, Y)]
    /\ UNCHANGED objs

\* objs[1].is_masked((X, Y))
IsMasked ==
    /\ call = NoCall
    /\ objs # <<>>
    /\ \E X \in Coords(objs[1].x), Y \in Coords(objs[1].y) :
            call' = [op |-> "is_masked", X |-> X, Y |-> Y,
                     ret |-> is_masked(objs[1], X, Y)]
    /\ UNCHANGED objs

\* s = objs[1].subset(xmin, ymin, xmax, ymax); the new object becomes objs[2]
Subset ==
    /\ call = NoCall
    /\ objs # <<>>
    /\ \E xmin \in Coords(objs[1].x), xmax \in Coords(objs[1].x),
          ymin \in Coords(objs[1].y), ymax \in Coords(objs[1].y) :
            LET r == subset(objs[1], xmin, ymin, xmax, ymax)
            IN  /\ objs' = IF r.kind = "ok" THEN <<objs[1], r.obj>> ELSE objs
                /\ call' = [op |-> "subset", self |-> objs[1], xmin |-> xmin, ymin |-> ymin,
                            xmax |-> xmax, ymax |-> ymax,
                            ret |-> IF r.kind = "ok" THEN Ref(2) ELSE r]

\* the caller takes the result of the outstanding call; after subset it goes
\* on with the grid returned
Return ==
    /\ call # NoCall
    /\ call' = NoCall
    /\ objs' = IF call.op = "subset" /\ call.ret.kind = "ref"
               THEN <<objs[2]>> ELSE objs

Init == objs = <<>> /\ call = NoCall

Next == Construct \/ Call \/ IsMasked \/ Return

Spec == Init /\ [][Next]_vars

InitSubset == call = NoCall /\ \E g \in SubsetGrids : objs = <<g>>

NextSubset == Subset \/ Return

SpecSubset == InitSubset /\ [][NextSubset]_vars

(* --------------------------- vocabulary of the claims ------------------ *)

\* the object the outstanding call was made on
g == objs[1]

Queried == call.op \in {"call", "is_masked"}

\* axes of length >= 2 with one spacing throughout
Uniform(a) ==
    /\ len(a) >= 2
    /\ \A k \in 0..(len(a) - 2) : a[k + 1] - a[k] = a[1] - a[0]

UniformGrid(q) == Uniform(q.x) /\ Uniform(q.y)

\* axes of length >= 2 and data of shape (len(y), len(x))
WellFormed(q) ==
    /\ len(q.x) >= 2
    /\ len(q.y) >= 2
    /\ q.data.shape = <<len(q.y), len(q.x)>>

InDomain(q, X, Y) ==
    /\ q.x[0] <= X /\ X <= last(q.x)
    /\ q.y[0] <= Y /\ Y <= last(q.y)

\* the cells of the grid, by their lower-left indices
CellsOf(q) == (0..(len(q.y) - 2)) \X (0..(len(q.x) - 2))

CornersOf(c) == {c[1], c[1] + 1} \X {c[2], c[2] + 1}

CellMasked(q, c) == \E k \in CornersOf(c) : q.data.mask[k]

\* the closed rectangle of cell c holds the point
Encloses(q, c, X, Y) ==
    /\ q.x[c[2]] <= X /\ X <= q.x[c[2] + 1]
    /\ q.y[c[1]] <= Y /\ Y <= q.y[c[1] + 1]

\* the value n/d of an outcome equals the fraction num/den
ValueIs(r, num, den) == r.kind = "value" /\ r.n * den = num * r.d

(* ------------------------------- C1 ------------------------------------ *)

\* C1: at every in-domain point whose cell has four unmasked corners,
\* evaluate returns q00 + ax*(q01-q00) + ay*(q10-q00) + ax*ay*(q00+q11-q10-q01),
\* which is the corner sum weighted by (1-ax)(1-ay), ax(1-ay), (1-ax)ay, ax*ay;
\* at the midpoint of a cell of the grid spacing it is the mean of the corners.
Thm_C1 ==
    (call.op = "call" /\ InDomain(g, call.X, call.Y)) =>
        LET ij  == _index_of_point(g.x, g.y, call.X, call.Y)
            c   == <<ij.i, ij.j>>
            dx  == g.x[1] - g.x[0]
            dy  == g.y[1] - g.y[0]
            a   == call.X - g.x[ij.j]
            b   == call.Y - g.y[ij.i]
            q00 == g.data.val[<<ij.i, ij.j>>]
            q01 == g.data.val[<<ij.i, ij.j + 1>>]
            q10 == g.data.val[<<ij.i + 1, ij.j>>]
            q11 == g.data.val[<<ij.i + 1, ij.j + 1>>]
        IN  ~CellMasked(g, c) =>
              /\ ValueIs(call.ret,
                         q00 * dx * dy + a * dy * (q01 - q00) + b * dx * (q10 - q00)
                           + a * b * (q00 + q11 - q10 - q01),
                         dx * dy)
              /\ ValueIs(call.ret,
                         (dx - a) * (dy - b) * q00 + a * (dy - b) * q01
                           + (dx - a) * b * q10 + a * b * q11,
                         dx * dy)
              /\ (2 * a = dx /\ 2 * b = dy) =>
                     ValueIs(call.ret, q00 + q01 + q10 + q11, 4)

\* C1 witness: the midpoint of the first cell, evaluated to a number of quarters
\* (the mean of four corners whose sum is odd)
Wit_C1 ==
    /\ call.op = "call"
    /\ InDomain(g, call.X, call.Y)
    /\ call.ret.kind = "value"
    /\ call.ret.d = 4
    /\ 2 * (call.X - g.x[0]) = g.x[1] - g.x[0]
    /\ 2 * (call.Y - g.y[0]) = g.y[1] - g.y[0]

(* ------------------------------- C3 ------------------------------------ *)

\* C3: evaluate and is_masked raise the out-of-domain error exactly when
\* X < x[0] or X > x[nx-1] or Y < y[0] or Y > y[ny-1]; boundary points never
\* raise it, and outside the domain no other outcome (insufficient data
\* included) is reported, whatever the mask.
Thm_C3 ==
    Queried =>
        (call.ret = Raise("OutOfDomain")
            <=> \/ call.X < g.x[0] \/ call.X > last(g.x)
                \/ call.Y < g.y[0] \/ call.Y > last(g.y))

\* C3 witness: a point outside the domain, next to a cell with a masked corner,
\* reports out-of-domain
Wit_C3 ==
    /\ call.op = "call"
    /\ call.X = g.x[0] - 1
    /\ call.Y = g.y[0]
    /\ g.data.mask[<<0, 0>>]
    /\ call.ret = Raise("OutOfDomain")

(* ------------------------------- C9 ------------------------------------ *)

\* C9: on uniform axes, for every in-domain point, _index_of_point returns
\* (i, j) with 0 <= i <= ny-2, 0 <= j <= nx-2,
\* i = min(floor((Y-y[0])/(y[1]-y[0])), ny-2), j = min(floor((X-x[0])/(x[1]-x[0])), nx-2),
\* and the cell encloses the point.
Thm_C9 ==
    (Queried /\ UniformGrid(g) /\ InDomain(g, call.X, call.Y)) =>
        LET ij == _index_of_point(g.x, g.y, call.X, call.Y)
        IN  /\ ij.kind = "ok"
            /\ 0 <= ij.i /\ ij.i <= len(g.y) - 2
            /\ 0 <= ij.j /\ ij.j <= len(g.x) - 2
            /\ ij.i = Min((call.Y - g.y[0]) \div (g.y[1] - g.y[0]), len(g.y) - 2)
            /\ ij.j = Min((call.X - g.x[0]) \div (g.x[1] - g.x[0]), len(g.x) - 2)
            /\ Encloses(g, <<ij.i, ij.j>>, call.X, call.Y)

\* C9 witness: a query on the last grid line in x and strictly inside a cell in
\* y, where the quotient is nx-1 and the index is clamped to nx-2
Wit_C9 ==
    /\ Queried
    /\ UniformGrid(g)
    /\ len(g.x) = 3
    /\ call.X = last(g.x)
    /\ g.y[0] < call.Y /\ call.Y < g.y[1]
    /\ _index_of_point(g.x, g.y, call.X, call.Y) = [kind |-> "ok", i |-> 0, j |-> 1]

(* ------------------------------- C2 ------------------------------------ *)

\* the outcome that reports missing data: the insufficient-data error from
\* evaluate, true from is_masked
ReportsMissing ==
    \/ call.op = "call" /\ call.ret = Raise("InsufficientData")
    \/ call.op = "is_masked" /\ call.ret = [kind |-> "bool", b |-> TRUE]

\* the points _index_of_point resolves to cell c: the cell without its upper
\* edges, except on the last grid line of an axis
ResolvesTo(q, c, X, Y) ==
    /\ q.x[c[2]] <= X
    /\ \/ X < q.x[c[2] + 1]
       \/ c[2] = len(q.x) - 2 /\ X = last(q.x)
    /\ q.y[c[1]] <= Y
    /\ \/ Y < q.y[c[1] + 1]
       \/ c[1] = len(q.y) - 2 /\ Y = last(q.y)

\* C2 as stated: on a uniform grid, at every point of the closed rectangle of a
\* cell with a masked corner (edges and corners included) evaluate raises
\* insufficient-data and is_masked returns true.
Cex_C2 ==
    (Queried /\ UniformGrid(g)) =>
        \A c \in CellsOf(g) :
            (CellMasked(g, c) /\ Encloses(g, c, call.X, call.Y)) => ReportsMissing

\* C2 amended: the same at every point of the cell that is not on an edge it
\* shares with the next cell in x or in y (such a point belongs to that cell).
Thm_C2 ==
    (Queried /\ UniformGrid(g)) =>
        \A c \in CellsOf(g) :
            (CellMasked(g, c) /\ ResolvesTo(g, c, call.X, call.Y)) => ReportsMissing

\* C2 witness: evaluate strictly inside a cell whose only masked corner is its
\* upper right one raises insufficient-data
Wit_C2 ==
    /\ call.op = "call"
    /\ UniformGrid(g)
    /\ g.data.mask[<<1, 1>>]
    /\ ~g.data.mask[<<0, 0>>] /\ ~g.data.mask[<<0, 1>>] /\ ~g.data.mask[<<1, 0>>]
    /\ g.x[0] < call.X /\ call.X < g.x[1]
    /\ g.y[0] < call.Y /\ call.Y < g.y[1]
    /\ call.ret = Raise("InsufficientData")

(* ------------------------------- C4 ------------------------------------ *)

\* the cells that have grid point (i, j) as a corner
CellsAt(q, i, j) == CellsOf(q) \cap ({i - 1, i} \X {j - 1, j})

\* C4: on a uniform grid, at a grid point (x[j], y[i]) all of whose cells have
\* four unmasked corners, evaluate returns exactly at(i, j), the last row and
\* the last column included.
Thm_C4 ==
    (call.op = "call" /\ UniformGrid(g)) =>
        \A i \in 0..(len(g.y) - 1), j \in 0..(len(g.x) - 1) :
            ( /\ call.X = g.x[j]
              /\ call.Y = g.y[i]
              /\ \A c \in CellsAt(g, i, j) : ~CellMasked(g, c) )
            => call.ret = [kind |-> "value", n |-> __getitem__(g, i, j), d |-> 1]

\* C4 witness: the last grid point of a 3 x 3 grid, where the index is clamped
\* and both offsets are 1, returns the non-zero sample stored there
Wit_C4 ==
    /\ call.op = "call"
    /\ UniformGrid(g)
    /\ len(g.x) = 3 /\ len(g.y) = 3
    /\ call.X = last(g.x) /\ call.Y = last(g.y)
    /\ __getitem__(g, 2, 2) = 1
    /\ __getitem__(g, 1, 1) = 0
    /\ call.ret = [kind |-> "value", n |-> 1, d |-> 1]

(* ------------------------------- C5 ------------------------------------ *)

\* what evaluate and is_masked answer on the outcome r of a construction, at
\* every query point of the axes (the error itself when construction failed)
Answers(r, x, y) ==
    IF r.kind = "error" THEN r
    ELSE [P \in Coords(x) \X Coords(y) |->
            <<__call__(r.obj, P[1], P[2]), is_masked(r.obj, P[1], P[2])>>]

\* the three ways to hand missing cells m of values v to the constructor
ByPreMasked(x, y, v, m) ==
    __init__(x, y, [isMA |-> TRUE, shape |-> <<len(y), len(x)>>, val |-> v, mask |-> m],
             NoArg, NoArg)

ByMask(x, y, v, m) ==
    __init__(x, y, [isMA |-> FALSE, shape |-> <<len(y), len(x)>>, val |-> v,
                    mask |-> [c \in DOMAIN v |-> FALSE]],
             GivenMask(m), NoArg)

BySentinel(x, y, v, s) ==
    __init__(x, y, [isMA |-> FALSE, shape |-> <<len(y), len(x)>>, val |-> v,
                    mask |-> [c \in DOMAIN v |-> FALSE]],
             NoArg, Given(s))

\* the outstanding construction names its missing cells in exactly one way
OneMaskSource ==
    /\ call.op = "init"
    /\ call.data.shape = <<len(call.y), len(call.x)>>
    /\ \/ call.data.isMA /\ ~call.mask.given /\ ~call.mdv.given
       \/ ~call.data.isMA /\ call.mask.given /\ ~call.mdv.given
       \/ ~call.data.isMA /\ ~call.mask.given /\ call.mdv.given

\* the missing cells that construction names
MissingCells ==
    IF call.data.isMA THEN call.data.mask
    ELSE IF call.mask.given THEN call.mask.m
    ELSE [c \in DOMAIN call.data.val |-> call.data.val[c] = call.mdv.v]

\* the sentinels that encode exactly those cells in the values
SentinelsFor ==
    IF call.mdv.given THEN {call.mdv.v}
    ELSE {s \in Sentinels :
            \A c \in DOMAIN call.data.val : (call.data.val[c] = s) <=> MissingCells[c]}

\* C5: for the same axes, values and missing cells M, the grid built from a
\* pre-masked array, the one built with the boolean mask M and the one built
\* with a sentinel s that marks exactly M answer evaluate and is_masked alike at
\* every query point; the grid constructed is one of them.
Thm_C5 ==
    OneMaskSource =>
        \A s \in SentinelsFor :
            LET a == ByPreMasked(call.x, call.y, call.data.val, MissingCells)
                b == ByMask(call.x, call.y, call.data.val, MissingCells)
                c == BySentinel(call.x, call.y, call.data.val, s)
            IN  /\ a.kind = "ok" /\ b.kind = "ok" /\ c.kind = "ok"
                /\ g \in {a.obj, b.obj, c.obj}
                /\ Answers(a, call.x, call.y) = Answers(b, call.x, call.y)
                /\ Answers(b, call.x, call.y) = Answers(c, call.x, call.y)
                /\ Answers(c, call.x, call.y) = Answers([kind |-> "ok", obj |-> g],
                                                        call.x, call.y)

\* C5 witness: a grid built with the boolean mask of one missing cell whose value
\* is a sentinel found nowhere else, with a cell that evaluates and one that
\* does not
Wit_C5 ==
    /\ OneMaskSource
    /\ call.mask.given
    /\ SentinelsFor # {}
    /\ \E c \in DOMAIN MissingCells : MissingCells[c]
    /\ \E X \in Coords(call.x), Y \in Coords(call.y) :
            __call__(g, X, Y).kind = "value"
    /\ \E X \in Coords(call.x), Y \in Coords(call.y) :
            __call__(g, X, Y) = Raise("InsufficientData")

(* ------------------------------- C8 ------------------------------------ *)

ShapeAgrees == call.data.shape = <<len(call.y), len(call.x)>>

HasMaskSource == call.data.isMA \/ call.mask.given \/ call.mdv.given

\* C8: construction succeeds exactly when data.shape = (len(y), len(x)) and a
\* mask source is given; a shape disagreement raises the shape-mismatch error
\* whatever the mask source, an agreeing shape without mask source raises the
\* missing-mask-specification error, and a failed construction leaves no object.
Thm_C8 ==
    call.op = "init" =>
        /\ call.ret.kind = "ref" <=> (ShapeAgrees /\ HasMaskSource)
        /\ ~ShapeAgrees => call.ret = Raise("ShapeMismatch")
        /\ (ShapeAgrees /\ ~HasMaskSource) => call.ret = Raise("UnspecifiedMask")
        /\ call.ret.kind = "error" => objs = <<>>
        /\ call.ret.kind = "ref" => (g.x = call.x /\ g.y = call.y)

\* C8 witness: a pre-masked array whose shape disagrees with the axes is refused
\* with the shape-mismatch error and no object exists
Wit_C8 ==
    /\ call.op = "init"
    /\ call.data.isMA
    /\ ~ShapeAgrees
    /\ call.ret = Raise("ShapeMismatch")
    /\ objs = <<>>

(* --------------------------- sub-region extraction --------------------- *)

\* the grid returned by the outstanding subset call
sub == objs[2]

Ordered == call.xmin <= call.xmax /\ call.ymin <= call.ymax

\* the requested rectangle meets the domain of q
Intersects(q) ==
    /\ call.xmin <= last(q.x) /\ call.xmax >= q.x[0]
    /\ call.ymin <= last(q.y) /\ call.ymax >= q.y[0]

\* evaluate and is_masked can be used on q: no query point of its axes makes
\* them fail on the shape of q
Usable(q) ==
    \A X \in Coords(q.x), Y \in Coords(q.y) :
        /\ __call__(q, X, Y) # Raise("IndexError")
        /\ is_masked(q, X, Y) # Raise("IndexError")

(* ------------------------------- C6 ------------------------------------ *)

\* C6: for a uniform grid and a rectangle with xmin <= xmax, ymin <= ymax that
\* meets its domain, subset returns a grid s with s.x[0] <= max(xmin, x[0]),
\* s.x[-1] >= min(xmax, x[-1]), s.y[0] <= max(ymin, y[0]),
\* s.y[-1] >= min(ymax, y[-1]), and wherever evaluate succeeds on both grids
\* the two values are the same.
Thm_C6 ==
    (call.op = "subset" /\ UniformGrid(g) /\ Ordered /\ Intersects(g)) =>
        /\ call.ret.kind = "ref"
        /\ sub.x[0] <= Max(call.xmin, g.x[0])
        /\ last(sub.x) >= Min(call.xmax, last(g.x))
        /\ sub.y[0] <= Max(call.ymin, g.y[0])
        /\ last(sub.y) >= Min(call.ymax, last(g.y))
        /\ \A X \in Coords(g.x), Y \in Coords(g.y) :
              LET p == __call__(g, X, Y)
                  c == __call__(sub, X, Y)
              IN  (p.kind = "value" /\ c.kind = "value") => p = c

\* C6 witness: x = [0, 1, 2, 3], y = [0, 1, 2] and subset(0.5, 0.5, 1.5, 1.5), in
\* half steps from Origin: the result spans [0, 2] in x and in y, and both grids
\* evaluate the midpoint of the first cell
Wit_C6 ==
    /\ call.op = "subset"
    /\ g.x = Axis(4, 2, 0) /\ g.y = Axis(3, 2, 0)
    /\ call.xmin = Origin + 1 /\ call.ymin = Origin + 1
    /\ call.xmax = Origin + 3 /\ call.ymax = Origin + 3
    /\ call.ret.kind = "ref"
    /\ sub.x = Axis(3, 2, 0) /\ sub.y = Axis(3, 2, 0)
    /\ __call__(sub, Origin + 1, Origin + 1).kind = "value"
    /\ __call__(g, Origin + 1, Origin + 1).kind = "value"

(* ------------------------------- C7 ------------------------------------ *)

\* C7 as stated: subset raises no error for a rectangle partly or wholly
\* outside the domain of a well-formed grid, one lying entirely beyond a side
\* of the domain included.
Cex_C7 ==
    (call.op = "subset" /\ WellFormed(g) /\ Ordered) => call.ret.kind = "ref"

\* C7 amended: subset raises no error for a rectangle that reaches outside the
\* domain but meets it: the rectangle is clamped and a grid inside the domain
\* is returned; a rectangle entirely beyond one side of the domain raises the
\* out-of-domain error.
Thm_C7 ==
    (call.op = "subset" /\ WellFormed(g) /\ Ordered) =>
        /\ Intersects(g) =>
              /\ call.ret.kind = "ref"
              /\ g.x[0] <= sub.x[0] /\ last(sub.x) <= last(g.x)
              /\ g.y[0] <= sub.y[0] /\ last(sub.y) <= last(g.y)
        /\ ~Intersects(g) => call.ret = Raise("OutOfDomain")

\* C7 witness: a rectangle that sticks out of the domain on every side returns
\* the whole grid
Wit_C7 ==
    /\ call.op = "subset"
    /\ WellFormed(g)
    /\ call.xmin < g.x[0] /\ call.xmax > last(g.x)
    /\ call.ymin < g.y[0] /\ call.ymax > last(g.y)
    /\ call.ret.kind = "ref"
    /\ sub = g

(* ------------------------------- C10 ----------------------------------- *)

\* C10 as stated: every grid a subset call returns, for any arguments, has
\* len(x) >= 2, len(y) >= 2 and data of shape (len(y), len(x)).
Cex_C10 == \A k \in DOMAIN objs : WellFormed(objs[k])

\* C10 amended: every grid a subset call with xmin <= xmax and ymin <= ymax
\* returns from a well-formed grid is well-formed, evaluate and is_masked are
\* usable on it, and the grid the call was made on is as it was before.
Thm_C10 ==
    (call.op = "subset" /\ WellFormed(call.self) /\ Ordered /\ call.ret.kind = "ref") =>
        /\ WellFormed(sub)
        /\ Usable(sub)
        /\ g = call.self

\* C10 witness: a second-generation sub-grid: subset on a grid that is itself a
\* proper sub-grid returns a smaller well-formed grid
Wit_C10 ==
    /\ call.op = "subset"
    /\ Ordered
    /\ call.ret.kind = "ref"
    /\ len(g.x) = 3 /\ g.x[0] > Origin
    /\ len(sub.x) = 2 /\ len(sub.y) = 2
    /\ sub.x[0] > g.x[0]
    /\ WellFormed(sub)

====
